---- MODULE Spec2Model ----
(***************************************************************************)
(* Model of conntrack.py: the conntrack event listener that keeps an nginx *)
(* stream configuration in step with the NAT flows of an allow-listed      *)
(* network.                                                                *)
(*                                                                         *)
(* Addresses are integers of AddrBits bits (IPv4 has 32); a network is its *)
(* first address and its prefix length.  A raw record is the XML element   *)
(* of one conntrack event, an element or attribute that is not there being *)
(* NoText / NoAttr.  A rendered configuration is the sequence of its       *)
(* lines, each line the record of the fields the format string prints.     *)
(***************************************************************************)
EXTENDS Integers, Sequences, FiniteSets, TLC

VARIABLES
    allowed_networks,   \* NginxFlowEventListener.allowed_networks
    reload_execv,       \* NginxFlowEventListener.reload_execv
    flow_table,         \* FlowEventListener.flow_table, in insertion order
    stopped,            \* FlowEventListener.stopped
    stop_cli,           \* FlowEventListener.stop_cli
    pc,                 \* where the program is (main / run / flow_table_updated)
    error,              \* the exception that left run(), "none" if none
    nginx_conf,         \* local of flow_table_updated: the text being committed
    files,              \* the file system: path -> [exists, data]
    reloads,            \* reload commands launched (Popen, never waited for)
    cli_launched,       \* ConntrackCli.launch_process was called
    cli_stop_calls,     \* calls of ConntrackCli.stop (send_signal, which sends SIGINT
                        \* unless the conntrack process has exited)
    consumed,           \* records read from the conntrack process, or events
                        \* handed to handle_event, since the initial state
    last_raw,           \* the record read last
    last_kind,          \* history: per flow id, the last new/update/destroy handled
    committed,          \* history: the text of the last rename onto the target
    observed,           \* what a reader of the target path saw last
    probe               \* the results of calling check_flow or generate_nginx_conf directly

vars == <<allowed_networks, reload_execv, flow_table, stopped, stop_cli, pc, error, nginx_conf,
          files, reloads, cli_launched, cli_stop_calls, consumed, last_raw,
          last_kind, committed, observed, probe>>

-----------------------------------------------------------------------------
(* Bounds *)

AddrBits == 2       \* width of an address
MaxRecords == 2     \* records read from the conntrack processes
MaxNets == 2        \* networks in an allow-list given to check_flow

-----------------------------------------------------------------------------
(* Values *)

NoText == -1        \* an element that is not in the record (find() gives None)
Unset == -2         \* an attribute L3L4.__init__ never assigned
NoneText == -3      \* an element that is in the record without text (.text is None)
NoAttr == "<none>"  \* an XML attribute or element that is not in the record
NoneId == "None"    \* the id read from an id element without text (None)

RECURSIVE Pow2(_)
Pow2(n) == IF n = 0 THEN 1 ELSE 2 * Pow2(n - 1)

Addresses == 0 .. (Pow2(AddrBits) - 1)

tcp_or_udp == {"tcp", "udp"}

additional_conf == "extra"

config_file_path == "nginx.conf"

\* the text written straight to the target path
tmp_conf_path_in_place == "nginx.conf"

tmp_conf_path == "nginx.conf.tmp"

Paths == {config_file_path, tmp_conf_path}

NoFile == [exists |-> FALSE, data |-> <<>>]

File(text) == [exists |-> TRUE, data |-> text]

-----------------------------------------------------------------------------
(* ipaddress: networks and containment *)

ip_network(addr, prefixlen) ==
    [version |-> 4, network_address |-> addr, prefixlen |-> prefixlen]

broadcast_address(n) == n.network_address + Pow2(AddrBits - n.prefixlen) - 1

\* is_subnet_of raises TypeError when the versions differ
is_subnet_of_raises(a, b) == a.version # b.version

\* the last address of the network left out
is_subnet_of_strict(a, b) ==
    /\ b.network_address <= a.network_address
    /\ broadcast_address(b) > broadcast_address(a)

is_subnet_of(a, b) ==
    /\ b.network_address <= a.network_address
    /\ broadcast_address(b) >= broadcast_address(a)

-----------------------------------------------------------------------------
(* Decoding: L3L4.__init__ and FlowEvent.__init__ *)

\* None.find, None.attrib, None.text or a missing protoname: the constructor
\* raises; an element without text gives None and raises nothing
L3L4_raises(x) ==
    \/ ~x.present
    \/ x.l3_proto = NoAttr
    \/ x.l3_src = NoText
    \/ x.l3_dst = NoText
    \/ x.l4_proto = NoAttr

\* the ports are assigned in order inside one try block: the first missing
\* element ends the block and leaves the remaining attributes unassigned
L3L4(x) ==
    [l3_proto |-> x.l3_proto,
     l3_src   |-> x.l3_src,
     l3_dst   |-> x.l3_dst,
     l4_proto |-> x.l4_proto,
     l4_sport |-> IF x.l4_sport = NoText THEN Unset ELSE x.l4_sport,
     l4_dport |-> IF x.l4_sport = NoText \/ x.l4_dport = NoText
                  THEN Unset ELSE x.l4_dport]

\* ET.fromstring raises on text that is no XML (and on the empty line of an
\* ended stream); FlowEvent raises on a missing direction, id element or type;
\* an id element without text gives the id None
FlowEvent_raises(raw) ==
    \/ ~raw.xml
    \/ L3L4_raises(raw.original)
    \/ L3L4_raises(raw.reply)
    \/ raw.id = NoAttr
    \/ raw.type = NoAttr

FlowEvent(raw) ==
    [original |-> L3L4(raw.original),
     reply    |-> L3L4(raw.reply),
     id       |-> raw.id,
     type     |-> raw.type]

-----------------------------------------------------------------------------
(* NginxFlowEventListener.check_flow *)

\* line 118 raises TypeError for the source None (None + '/32'), and
\* is_subnet_of raises it for a network of another version
check_flow_raises(event, networks) ==
    /\ event.original.l3_proto = "ipv4"
    /\ event.original.l4_proto \in tcp_or_udp
    /\ event.reply.l3_proto = "ipv4"
    /\ event.reply.l4_proto \in tcp_or_udp
    /\ event.original.l4_proto = event.reply.l4_proto
    /\ event.original.l3_src # event.reply.l3_dst
    /\ \/ event.original.l3_src = NoneText
       \/ \E i \in 1 .. Len(networks) :
             /\ is_subnet_of_raises(ip_network(event.original.l3_src, AddrBits),
                                    networks[i])
             /\ \A j \in 1 .. (i - 1) :
                   ~is_subnet_of(ip_network(event.original.l3_src, AddrBits),
                                 networks[j])

\* the test of lines 113-115 left out
check_flow_without_nat_test(event, networks) ==
    IF \/ event.original.l3_proto # "ipv4"
       \/ event.original.l4_proto \notin tcp_or_udp
       \/ event.reply.l3_proto # "ipv4"
       \/ event.reply.l4_proto \notin tcp_or_udp
    THEN FALSE
    ELSE IF event.original.l4_proto # event.reply.l4_proto
    THEN FALSE
    ELSE \E i \in 1 .. Len(networks) :
            is_subnet_of(ip_network(event.original.l3_src, AddrBits), networks[i])

check_flow(event, networks) ==
    IF \/ event.original.l3_proto # "ipv4"
       \/ event.original.l4_proto \notin tcp_or_udp
       \/ event.reply.l3_proto # "ipv4"
       \/ event.reply.l4_proto \notin tcp_or_udp
    THEN FALSE
    ELSE IF event.original.l4_proto # event.reply.l4_proto
    THEN FALSE
    ELSE IF event.original.l3_src = event.reply.l3_dst
    THEN FALSE
    ELSE LET single_host_network == ip_network(event.original.l3_src, AddrBits)
         IN  \E i \in 1 .. Len(networks) :
                is_subnet_of(single_host_network, networks[i])

-----------------------------------------------------------------------------
(* The flow table: a dict, iterated in insertion order *)

Keys(table) == {table[i].key : i \in 1 .. Len(table)}

\* a present key keeps its first value
dict_set_keeps_first(table, k, v) ==
    IF k \in Keys(table)
    THEN table
    ELSE Append(table, [key |-> k, value |-> v])

\* flow_table[flow_id] = event: a present key keeps its place
dict_set(table, k, v) ==
    IF k \in Keys(table)
    THEN [i \in 1 .. Len(table) |->
            IF table[i].key = k THEN [key |-> k, value |-> v] ELSE table[i]]
    ELSE Append(table, [key |-> k, value |-> v])

dict_del_keep(e, k) == e.key # k

\* del flow_table[flow_id]
dict_del(table, k) == SelectSeq(table, LAMBDA e : dict_del_keep(e, k))

\* every destroy calls flow_table_updated, of a flow in the table or not
handle_event_notifies_every_destroy(table, event) ==
    IF event.type \in {"new", "update"}
    THEN [flow_table |-> dict_set(table, event.id, event), updated |-> TRUE]
    ELSE IF event.type = "destroy"
    THEN [flow_table |-> dict_del(table, event.id), updated |-> TRUE]
    ELSE [flow_table |-> table, updated |-> FALSE]

\* destroy leaves the entry in the table
handle_event_keeps_destroyed(table, event) ==
    IF event.type \in {"new", "update"}
    THEN [flow_table |-> dict_set(table, event.id, event), updated |-> TRUE]
    ELSE IF event.type = "destroy" /\ event.id \in Keys(table)
    THEN [flow_table |-> table, updated |-> TRUE]
    ELSE [flow_table |-> table, updated |-> FALSE]

\* FlowEventListener.handle_event up to the call of flow_table_updated:
\* the table after the event, and whether flow_table_updated is called
handle_event(table, event) ==
    IF event.type \in {"new", "update"}
    THEN [flow_table |-> dict_set(table, event.id, event), updated |-> TRUE]
    ELSE IF event.type = "destroy" /\ event.id \in Keys(table)
    THEN [flow_table |-> dict_del(table, event.id), updated |-> TRUE]
    ELSE [flow_table |-> table, updated |-> FALSE]

-----------------------------------------------------------------------------
(* NginxFlowEventListener.generate_nginx_conf *)

\* the line never carries the udp marker
forward_line_without_udp(listen_addr, udp, dest_addr, flow_id) ==
    [listen_addr |-> listen_addr, udp |-> FALSE, dest_addr |-> dest_addr,
     additional_conf |-> additional_conf, id |-> flow_id]

\* one formatted line of the configuration
forward_line(listen_addr, udp, dest_addr, flow_id) ==
    [listen_addr |-> listen_addr, udp |-> udp, dest_addr |-> dest_addr,
     additional_conf |-> additional_conf, id |-> flow_id]

GenerateRaised(name, lines) == [raised |-> TRUE, error |-> name, lines |-> lines]

\* the loop over flow_table.items(): raised is TRUE when check_flow raises,
\* when reading a port attribute that was never assigned raises
\* AttributeError, or when joining None to a string raises TypeError
RECURSIVE generate_loop(_, _, _, _, _)
generate_loop(table, networks, i, listened_addresses, lines) ==
    IF i > Len(table)
    THEN [raised |-> FALSE, error |-> "none", lines |-> lines]
    ELSE LET flow_id == table[i].key
             flow == table[i].value
         IN  IF check_flow_raises(flow, networks)
             THEN GenerateRaised("TypeError", lines)
             ELSE IF ~check_flow(flow, networks)
             THEN generate_loop(table, networks, i + 1, listened_addresses, lines)
             ELSE IF flow.reply.l3_dst = NoneText
             THEN GenerateRaised("TypeError", lines)
             ELSE IF flow.reply.l4_dport = Unset
             THEN GenerateRaised("AttributeError", lines)
             ELSE IF flow.reply.l4_dport = NoneText
             THEN GenerateRaised("TypeError", lines)
             ELSE LET listen_addr == <<flow.reply.l3_dst, flow.reply.l4_dport>>
                  IN  IF listen_addr \in listened_addresses
                      THEN generate_loop(table, networks, i + 1,
                                         listened_addresses, lines)
                      ELSE IF flow.original.l4_sport = Unset
                      THEN GenerateRaised("AttributeError", lines)
                      ELSE IF flow.original.l4_sport = NoneText
                      THEN GenerateRaised("TypeError", lines)
                      ELSE generate_loop(table, networks, i + 1,
                              listened_addresses \cup {listen_addr},
                              Append(lines,
                                  forward_line(listen_addr,
                                      flow.reply.l4_proto = "udp",
                                      <<flow.original.l3_src, flow.original.l4_sport>>,
                                      flow_id)))

generate_nginx_conf(table, networks) == generate_loop(table, networks, 1, {}, <<>>)

-----------------------------------------------------------------------------
(* The records the conntrack process can emit *)

FlowIds == {"1", "2"}

Kinds == {"new", "update", "destroy", "other"}

Meta(l3_proto, l3_src, l3_dst, l4_proto, l4_sport, l4_dport) ==
    [present |-> TRUE, l3_proto |-> l3_proto, l3_src |-> l3_src, l3_dst |-> l3_dst,
     l4_proto |-> l4_proto, l4_sport |-> l4_sport, l4_dport |-> l4_dport]

NoMeta == [present |-> FALSE, l3_proto |-> NoAttr, l3_src |-> NoText, l3_dst |-> NoText,
           l4_proto |-> NoAttr, l4_sport |-> NoText, l4_dport |-> NoText]

\* a flow of the host src:sport to peer:9, seen by the peer as coming from
\* nat:nport
Tuples(l4_orig, l4_reply, src, sport, peer, nat, nport) ==
    [original |-> Meta("ipv4", src, peer, l4_orig, sport,
                       IF sport = NoText THEN NoText ELSE 9),
     reply    |-> Meta("ipv4", peer, nat, l4_reply,
                       IF nport = NoText THEN NoText ELSE 9, nport)]

\* 2 and 3 are inside hosts, 0 is the address of the NAT, 1 is outside
FlowShapes ==
    { Tuples("tcp", "tcp", 2, 1, 1, 0, 1),             \* translated, allow-listed
      Tuples("tcp", "tcp", 3, 2, 1, 0, 2),             \* translated, another listen port
      Tuples("udp", "udp", 3, 1, 1, 0, 1),             \* udp on the listen port of the first
      Tuples("tcp", "tcp", 2, 1, 1, 2, 1),             \* not translated
      Tuples("tcp", "tcp", 1, 2, 3, 0, 2),             \* source outside the allow-list
      Tuples("tcp", "tcp", 2, NoText, 1, 0, NoText),   \* tcp without port elements
      Tuples("icmp", "icmp", 2, NoText, 1, 0, NoText)  \* a portless protocol
    }

Record(shape, type, id) ==
    [xml |-> TRUE, type |-> type, id |-> id,
     original |-> shape.original, reply |-> shape.reply]

PlainShape == Tuples("tcp", "tcp", 2, 1, 1, 0, 1)

\* the records of every shape, kind and flow id
GoodRecords ==
    {Record(s, t, i) : s \in FlowShapes, t \in Kinds, i \in FlowIds}

BaseRecord == Record(PlainShape, "new", "1")

\* records FlowEvent cannot decode
BadRecords ==
    { [BaseRecord EXCEPT !.xml = FALSE],
      [BaseRecord EXCEPT !.id = NoAttr],
      [BaseRecord EXCEPT !.type = NoAttr],
      [BaseRecord EXCEPT !.original = NoMeta],
      [BaseRecord EXCEPT !.reply = NoMeta],
      [BaseRecord EXCEPT !.original.l3_proto = NoAttr],
      [BaseRecord EXCEPT !.original.l3_src = NoText],
      [BaseRecord EXCEPT !.reply.l3_dst = NoText],
      [BaseRecord EXCEPT !.reply.l4_proto = NoAttr] }

\* records with an element that is there without text: FlowEvent decodes
\* them, with None for the id, the address or the port
EmptyRecords ==
    { [BaseRecord EXCEPT !.id = NoneId],
      [BaseRecord EXCEPT !.original.l3_src = NoneText],
      [BaseRecord EXCEPT !.original.l3_dst = NoneText],
      [BaseRecord EXCEPT !.reply.l3_dst = NoneText],
      [BaseRecord EXCEPT !.reply.l4_dport = NoneText] }

RawRecords == GoodRecords \cup EmptyRecords \cup BadRecords

\* the flow ids a decoded event can carry
EventIds == FlowIds \cup {NoneId}

NoRecord == [BaseRecord EXCEPT !.xml = FALSE, !.type = NoAttr, !.id = NoAttr,
                               !.original = NoMeta, !.reply = NoMeta]

NoProbe == [called |-> FALSE]

-----------------------------------------------------------------------------
(* The program *)

RunPcs == {"launch", "loop", "read", "open", "write", "rename", "reload"}

\* the reload command after shlex.split: the empty command line, or a command
ReloadCommands == {<<>>, <<"reload">>}

\* the state after NginxFlowEventListener.__init__
Constructed ==
    /\ stopped = FALSE
    /\ stop_cli = FALSE
    /\ pc = "idle"
    /\ error = "none"
    /\ nginx_conf = <<>>
    /\ files = [p \in Paths |-> NoFile]
    /\ reloads = 0
    /\ cli_launched = FALSE
    /\ cli_stop_calls = 0
    /\ consumed = 0
    /\ last_raw = NoRecord
    /\ last_kind = [i \in EventIds |-> "none"]
    /\ committed = NoFile
    /\ observed = [file |-> NoFile, committed |-> NoFile]
    /\ probe = NoProbe

\* the inside network {2, 3} is the allow-list of the run
Init ==
    /\ allowed_networks = <<ip_network(2, AddrBits - 1)>>
    /\ reload_execv \in ReloadCommands
    /\ flow_table = <<>>
    /\ Constructed

\* the places where run() is not executing: before the first call, and
\* after run() returned, raised, or was left by KeyboardInterrupt
RestPcs == {"idle", "returned", "crashed", "exited"}

\* FlowEventListener.run up to the start of the conntrack process, called on
\* the listener whenever run() is not executing: a stopped listener raises
\* RuntimeError; otherwise subprocess.Popen starts a conntrack process, or
\* raises OSError when the binary cannot be executed
Run ==
    /\ pc \in RestPcs
    /\ IF stopped
       THEN /\ pc' = "crashed"
            /\ error' = "RuntimeError"
            /\ UNCHANGED cli_launched
       ELSE \/ /\ pc' = "launch"
               /\ error' = "none"
               /\ cli_launched' = TRUE
            \/ /\ pc' = "crashed"
               /\ error' = "OSError"
               /\ UNCHANGED cli_launched
    /\ UNCHANGED <<allowed_networks, reload_execv, flow_table, stopped, stop_cli,
                   nginx_conf, files, reloads, cli_stop_calls, consumed, last_raw,
                   last_kind, committed, observed, probe>>

\* launch_process waits for the two header lines of the conntrack output,
\* then run() enters its loop
SkipHeader ==
    /\ pc = "launch"
    /\ pc' = "loop"
    /\ UNCHANGED <<allowed_networks, reload_execv, flow_table, stopped, stop_cli,
                   error, nginx_conf, files, reloads, cli_launched, cli_stop_calls,
                   consumed, last_raw, last_kind, committed, observed, probe>>

\* while not self.stopped: the test passes and read_one_event blocks
AwaitRecord ==
    /\ pc = "loop"
    /\ ~stopped
    /\ pc' = "read"
    /\ UNCHANGED <<allowed_networks, reload_execv, flow_table, stopped, stop_cli, error, nginx_conf,
                   files, reloads, cli_launched, cli_stop_calls, consumed, last_raw,
                   last_kind, committed, observed, probe>>

\* the stop flag also ends a read that is waiting for its record
ExitLoop_preempts_read ==
    /\ pc \in {"loop", "read"}
    /\ stopped
    /\ cli_stop_calls' = IF stop_cli THEN cli_stop_calls + 1 ELSE cli_stop_calls
    /\ pc' = "returned"
    /\ UNCHANGED <<allowed_networks, reload_execv, flow_table, stopped, stop_cli, error, nginx_conf,
                   files, reloads, cli_launched, consumed, last_raw, last_kind,
                   committed, observed, probe>>

\* the test fails: if self.stop_cli: self._cli.stop(), and run returns
ExitLoop ==
    /\ pc = "loop"
    /\ stopped
    /\ cli_stop_calls' = IF stop_cli THEN cli_stop_calls + 1 ELSE cli_stop_calls
    /\ pc' = "returned"
    /\ UNCHANGED <<allowed_networks, reload_execv, flow_table, stopped, stop_cli, error, nginx_conf,
                   files, reloads, cli_launched, consumed, last_raw, last_kind,
                   committed, observed, probe>>

\* history of the new/update/destroy events handled, per flow id
NoteKind(event) ==
    IF event.type \in {"new", "update", "destroy"}
    THEN [last_kind EXCEPT ![event.id] = event.type]
    ELSE last_kind

\* the text is rendered from the table as it was before the event
ReadAndHandle_renders_first(raw) ==
    /\ pc = "read"
    /\ consumed < MaxRecords
    /\ consumed' = consumed + 1
    /\ last_raw' = raw
    /\ IF FlowEvent_raises(raw)
       THEN /\ pc' = "crashed"
            /\ error' = "DecodeError"
            /\ UNCHANGED <<flow_table, nginx_conf, last_kind>>
       ELSE LET event == FlowEvent(raw)
                h == handle_event(flow_table, event)
                g == generate_nginx_conf(flow_table, allowed_networks)
            IN  /\ flow_table' = h.flow_table
                /\ last_kind' = NoteKind(event)
                /\ IF ~h.updated
                   THEN /\ pc' = "loop"
                        /\ UNCHANGED <<error, nginx_conf>>
                   ELSE IF check_flow_raises(event, allowed_networks)
                   THEN /\ pc' = "crashed"
                        /\ error' = "TypeError"
                        /\ UNCHANGED nginx_conf
                   ELSE IF ~check_flow(event, allowed_networks)
                   THEN /\ pc' = "loop"
                        /\ UNCHANGED <<error, nginx_conf>>
                   ELSE IF g.raised
                   THEN /\ pc' = "crashed"
                        /\ error' = g.error
                        /\ UNCHANGED nginx_conf
                   ELSE /\ pc' = "open"
                        /\ nginx_conf' = g.lines
                        /\ UNCHANGED error
    /\ UNCHANGED <<allowed_networks, reload_execv, stopped, stop_cli, files, reloads, cli_launched,
                   cli_stop_calls, committed, observed, probe>>

\* One record: read_one_event, FlowEvent, handle_event, and flow_table_updated
\* up to the text to commit
ReadAndHandle(raw) ==
    /\ pc = "read"
    /\ consumed < MaxRecords
    /\ consumed' = consumed + 1
    /\ last_raw' = raw
    /\ IF FlowEvent_raises(raw)
       THEN /\ pc' = "crashed"
            /\ error' = "DecodeError"
            /\ UNCHANGED <<flow_table, nginx_conf, last_kind>>
       ELSE LET event == FlowEvent(raw)
                h == handle_event(flow_table, event)
                g == generate_nginx_conf(h.flow_table, allowed_networks)
            IN  /\ flow_table' = h.flow_table
                /\ last_kind' = NoteKind(event)
                /\ IF ~h.updated
                   THEN /\ pc' = "loop"
                        /\ UNCHANGED <<error, nginx_conf>>
                   ELSE IF check_flow_raises(event, allowed_networks)
                   THEN /\ pc' = "crashed"
                        /\ error' = "TypeError"
                        /\ UNCHANGED nginx_conf
                   ELSE IF ~check_flow(event, allowed_networks)
                   THEN /\ pc' = "loop"
                        /\ UNCHANGED <<error, nginx_conf>>
                   ELSE IF g.raised
                   THEN /\ pc' = "crashed"
                        /\ error' = g.error
                        /\ UNCHANGED nginx_conf
                   ELSE /\ pc' = "open"
                        /\ nginx_conf' = g.lines
                        /\ UNCHANGED error
    /\ UNCHANGED <<allowed_networks, reload_execv, stopped, stop_cli, files, reloads, cli_launched,
                   cli_stop_calls, committed, observed, probe>>

\* open(tmp_conf_path, 'w'): the file is created or truncated
OpenTmp ==
    /\ pc = "open"
    /\ files' = [files EXCEPT ![tmp_conf_path] = File(<<>>)]
    /\ pc' = "write"
    /\ UNCHANGED <<allowed_networks, reload_execv, flow_table, stopped, stop_cli, error, nginx_conf,
                   reloads, cli_launched, cli_stop_calls, consumed, last_raw, last_kind,
                   committed, observed, probe>>

\* f.write(nginx_conf) and the close of the with block: the text reaches the
\* file piece by piece
WriteTmp ==
    /\ pc = "write"
    /\ LET n == Len(files[tmp_conf_path].data)
       IN  IF n < Len(nginx_conf)
           THEN /\ files' = [files EXCEPT ![tmp_conf_path] =
                                File(Append(files[tmp_conf_path].data, nginx_conf[n + 1]))]
                /\ UNCHANGED pc
           ELSE /\ pc' = "rename"
                /\ UNCHANGED files
    /\ UNCHANGED <<allowed_networks, reload_execv, flow_table, stopped, stop_cli, error, nginx_conf,
                   reloads, cli_launched, cli_stop_calls, consumed, last_raw, last_kind,
                   committed, observed, probe>>

\* os.rename(tmp_conf_path, self.config_file_path)
Rename ==
    /\ pc = "rename"
    /\ files' = [p \in Paths |->
                    IF p = config_file_path THEN files[tmp_conf_path]
                    ELSE IF p = tmp_conf_path THEN NoFile
                    ELSE files[p]]
    /\ committed' = File(nginx_conf)
    /\ pc' = "reload"
    /\ UNCHANGED <<allowed_networks, reload_execv, flow_table, stopped, stop_cli, error, nginx_conf,
                   reloads, cli_launched, cli_stop_calls, consumed, last_raw, last_kind,
                   observed, probe>>

\* the commit was swallowed: the reload is launched all the same
CommitFails_swallowed ==
    /\ pc \in {"open", "write", "rename"}
    /\ pc' = "reload"
    /\ error' = "OSError"
    /\ UNCHANGED <<allowed_networks, reload_execv, flow_table, stopped, stop_cli, nginx_conf, files,
                   reloads, cli_launched, cli_stop_calls, consumed, last_raw, last_kind,
                   committed, observed, probe>>

\* open, write/close or os.rename raises OSError: nothing catches it, run()
\* ends; what was written to the temporary file stays
CommitFails ==
    /\ pc \in {"open", "write", "rename"}
    /\ pc' = "crashed"
    /\ error' = "OSError"
    /\ UNCHANGED <<allowed_networks, reload_execv, flow_table, stopped, stop_cli, nginx_conf, files,
                   reloads, cli_launched, cli_stop_calls, consumed, last_raw, last_kind,
                   committed, observed, probe>>

\* subprocess.Popen(self.reload_execv) raises: IndexError for the empty
\* command line, OSError for a command that cannot be executed; nothing
\* catches it and run() ends, the target already renamed
ReloadFails ==
    /\ pc = "reload"
    /\ pc' = "crashed"
    /\ error' = IF reload_execv = <<>> THEN "IndexError" ELSE "OSError"
    /\ UNCHANGED <<allowed_networks, reload_execv, flow_table, stopped, stop_cli,
                   nginx_conf, files, reloads, cli_launched, cli_stop_calls, consumed,
                   last_raw, last_kind, committed, observed, probe>>

\* subprocess.Popen(self.reload_execv) starts the command
Reload ==
    /\ pc = "reload"
    /\ reload_execv # <<>>
    /\ reloads' = reloads + 1
    /\ pc' = "loop"
    /\ UNCHANGED <<allowed_networks, reload_execv, flow_table, stopped, stop_cli, error, nginx_conf,
                   files, cli_launched, cli_stop_calls, consumed, last_raw, last_kind,
                   committed, observed, probe>>

\* FlowEventListener.stop, called by whoever holds the listener, at any time
StopRequest ==
    /\ stopped' = TRUE
    /\ UNCHANGED <<allowed_networks, reload_execv, flow_table, stop_cli, pc, error,
                   nginx_conf, files, reloads, cli_launched, cli_stop_calls, consumed,
                   last_raw, last_kind, committed, observed, probe>>

\* the holder assigns the attribute stop_cli, as main does at line 195
SetStopCli(value) ==
    /\ stop_cli' = value
    /\ UNCHANGED <<allowed_networks, reload_execv, flow_table, stopped, pc, error,
                   nginx_conf, files, reloads, cli_launched, cli_stop_calls, consumed,
                   last_raw, last_kind, committed, observed, probe>>

\* main's handler of KeyboardInterrupt: l.stop_cli = True, then l.stop().
\* The flags it leaves: both set, or, when a second SIGINT ends the handler,
\* none or only stop_cli
MainHandler(cli_flag, stopped_flag) ==
    { [stop_cli |-> cli_flag, stopped |-> stopped_flag],
      [stop_cli |-> TRUE, stopped |-> stopped_flag],
      [stop_cli |-> TRUE, stopped |-> TRUE] }

\* SIGINT to the program while run() executes, from its first statement on:
\* KeyboardInterrupt leaves run() and main's handler runs
Interrupt ==
    /\ pc \in RunPcs \cup {"idle"}
    /\ error' = "KeyboardInterrupt"
    /\ \E h \in MainHandler(stop_cli, stopped) :
          stop_cli' = h.stop_cli /\ stopped' = h.stopped
    /\ pc' = "exited"
    /\ UNCHANGED <<allowed_networks, reload_execv, flow_table, nginx_conf, files,
                   reloads, cli_launched, cli_stop_calls, consumed, last_raw, last_kind,
                   committed, observed, probe>>

\* SIGINT while a record is being handled, after readline has returned it:
\* before handle_event has run (applied FALSE: the record is read and the
\* table is as it was), or after it and before flow_table_updated has
\* rendered (applied TRUE)
InterruptInHandle(raw, applied) ==
    /\ pc = "read"
    /\ consumed < MaxRecords
    /\ consumed' = consumed + 1
    /\ last_raw' = raw
    /\ IF applied
       THEN /\ ~FlowEvent_raises(raw)
            /\ LET event == FlowEvent(raw)
               IN  /\ flow_table' = handle_event(flow_table, event).flow_table
                   /\ last_kind' = NoteKind(event)
       ELSE UNCHANGED <<flow_table, last_kind>>
    /\ error' = "KeyboardInterrupt"
    /\ \E h \in MainHandler(stop_cli, stopped) :
          stop_cli' = h.stop_cli /\ stopped' = h.stopped
    /\ pc' = "exited"
    /\ UNCHANGED <<allowed_networks, reload_execv, nginx_conf, files, reloads,
                   cli_launched, cli_stop_calls, committed, observed, probe>>

\* SIGINT after the loop has ended and self._cli.stop() was called (line 74),
\* before run() returns
InterruptInExit ==
    /\ pc = "loop"
    /\ stopped
    /\ stop_cli
    /\ cli_stop_calls' = cli_stop_calls + 1
    /\ error' = "KeyboardInterrupt"
    /\ pc' = "exited"
    /\ UNCHANGED <<allowed_networks, reload_execv, flow_table, stopped, stop_cli,
                   nginx_conf, files, reloads, cli_launched, consumed, last_raw,
                   last_kind, committed, observed, probe>>

Next ==
    \/ Run
    \/ SkipHeader
    \/ AwaitRecord
    \/ ExitLoop
    \/ \E raw \in RawRecords : ReadAndHandle(raw)
    \/ OpenTmp
    \/ WriteTmp
    \/ Rename
    \/ CommitFails
    \/ ReloadFails
    \/ Reload
    \/ StopRequest
    \/ \E value \in BOOLEAN : SetStopCli(value)
    \/ Interrupt
    \/ \E raw \in RawRecords, applied \in BOOLEAN : InterruptInHandle(raw, applied)
    \/ InterruptInExit

Spec == Init /\ [][Next]_vars

-----------------------------------------------------------------------------
(* A reader of the configuration file, running beside the program *)

ReaderRead ==
    /\ observed' = [file |-> files[config_file_path], committed |-> committed]
    /\ UNCHANGED <<allowed_networks, reload_execv, flow_table, stopped, stop_cli, pc, error,
                   nginx_conf, files, reloads, cli_launched, cli_stop_calls, consumed,
                   last_raw, last_kind, committed, probe>>

NextReader ==
    \/ Next
    \/ ReaderRead

SpecReader == Init /\ [][NextReader]_vars

-----------------------------------------------------------------------------
(* check_flow called on its own, on any event and any allow-list *)

\* ipaddress.ip_network accepts a prefix only when its host bits are zero
Networks ==
    UNION { {ip_network(a, l) : a \in {x \in Addresses : x % Pow2(AddrBits - l) = 0}} :
            l \in 0 .. AddrBits }

AllowLists == UNION { [1 .. n -> Networks] : n \in 0 .. MaxNets }

ProbeEvent(f1, f2, t1, t2, src, dst) ==
    [original |-> [l3_proto |-> f1, l3_src |-> src, l3_dst |-> 1,
                   l4_proto |-> t1, l4_sport |-> 1, l4_dport |-> 9],
     reply    |-> [l3_proto |-> f2, l3_src |-> 1, l3_dst |-> dst,
                   l4_proto |-> t2, l4_sport |-> 9, l4_dport |-> 1],
     id |-> "1", type |-> "new"]

ProbeEvents ==
    { ProbeEvent(f1, f2, t1, t2, src, dst) :
      f1 \in {"ipv4", "ipv6"}, f2 \in {"ipv4", "ipv6"},
      t1 \in {"tcp", "udp", "icmp"}, t2 \in {"tcp", "udp", "icmp"},
      src \in Addresses, dst \in Addresses }

InitCheckFlow ==
    /\ allowed_networks \in AllowLists
    /\ reload_execv = <<"reload">>
    /\ flow_table = <<>>
    /\ Constructed

\* check_flow applied to every event, under the allow-list of the listener:
\* the events it returns True for
CheckFlowCalls ==
    /\ ~probe.called
    /\ probe' = [called |-> TRUE,
                 accepted |-> {event \in ProbeEvents :
                                 check_flow(event, allowed_networks)}]
    /\ UNCHANGED <<allowed_networks, reload_execv, flow_table, stopped, stop_cli, pc, error,
                   nginx_conf, files, reloads, cli_launched, cli_stop_calls, consumed,
                   last_raw, last_kind, committed, observed>>

NextCheckFlow == CheckFlowCalls

SpecCheckFlow == InitCheckFlow /\ [][NextCheckFlow]_vars

-----------------------------------------------------------------------------
(* generate_nginx_conf called on its own, on any flow table *)

MaxTable == 3       \* entries of a flow table given to generate_nginx_conf

TableIds == {ToString(i) : i \in 1 .. MaxTable}

\* flows that are not translated: the peer sees the source itself
NoNatShapes ==
    { Tuples("udp", "udp", 3, 1, 1, 3, 1),             \* udp, allow-listed source
      Tuples("tcp", "tcp", 2, NoText, 1, 2, NoText)    \* tcp without port elements
    }

\* the events handle_event can have stored under a flow id
Stored(id) == {FlowEvent(Record(s, "new", id)) : s \in FlowShapes \cup NoNatShapes}

RECURSIVE TablesOver(_, _)
TablesOver(ids, n) ==
    IF n = 0 \/ ids = {}
    THEN {<<>>}
    ELSE {<<>>} \cup
         UNION { { <<[key |-> id, value |-> v]>> \o t :
                   v \in Stored(id), t \in TablesOver(ids \ {id}, n - 1) } :
                 id \in ids }

InitRender ==
    /\ allowed_networks \in AllowLists
    /\ reload_execv = <<"reload">>
    /\ flow_table \in TablesOver(TableIds, MaxTable)
    /\ Constructed

GenerateCall ==
    /\ ~probe.called
    /\ LET g == generate_nginx_conf(flow_table, allowed_networks)
       IN  probe' = [called |-> TRUE, raised |-> g.raised, lines |-> g.lines]
    /\ UNCHANGED <<allowed_networks, reload_execv, flow_table, stopped, stop_cli, pc, error,
                   nginx_conf, files, reloads, cli_launched, cli_stop_calls, consumed,
                   last_raw, last_kind, committed, observed>>

NextRender == GenerateCall

SpecRender == InitRender /\ [][NextRender]_vars

-----------------------------------------------------------------------------
(* FlowEventListener.handle_event called on its own, on any events *)

MaxEvents == 4      \* events handed to handle_event, one after the other

\* handle_event(FlowEvent(raw)) of the base class, whose flow_table_updated
\* does nothing
HandleEventCall(raw) ==
    /\ consumed < MaxEvents
    /\ ~FlowEvent_raises(raw)
    /\ consumed' = consumed + 1
    /\ last_raw' = raw
    /\ LET event == FlowEvent(raw)
       IN  /\ flow_table' = handle_event(flow_table, event).flow_table
           /\ last_kind' = NoteKind(event)
    /\ UNCHANGED <<allowed_networks, reload_execv, stopped, stop_cli, pc, error, nginx_conf,
                   files, reloads, cli_launched, cli_stop_calls, committed, observed, probe>>

NextTable == \E raw \in RawRecords : HandleEventCall(raw)

SpecTable == Init /\ [][NextTable]_vars

-----------------------------------------------------------------------------
(* The listener in the middle of a run, about to read one more record *)

MaxHeld == 1        \* entries of the flow table the listener holds already

\* a text committed earlier in the run, for a flow of the inside network
EarlierText ==
    generate_nginx_conf(<<[key |-> "1", value |-> FlowEvent(BaseRecord)]>>,
                        <<ip_network(2, AddrBits - 1)>>).lines

\* the target as earlier commits can have left it: never written, the
\* render of the table, or an earlier text that the records handled since
\* have not replaced
TargetsHeld(table, networks) ==
    LET g == generate_nginx_conf(table, networks)
    IN  {NoFile, File(EarlierText)} \cup (IF g.raised THEN {} ELSE {File(g.lines)})

InitHeld ==
    /\ allowed_networks = <<ip_network(2, AddrBits - 1)>>
    /\ reload_execv \in ReloadCommands
    /\ flow_table \in TablesOver(FlowIds, MaxHeld)
    /\ committed \in TargetsHeld(flow_table, allowed_networks)
    /\ files = [p \in Paths |-> IF p = config_file_path THEN committed ELSE NoFile]
    /\ stopped = FALSE
    /\ stop_cli = FALSE
    /\ pc = "read"
    /\ error = "none"
    /\ nginx_conf = <<>>
    /\ reloads = 0
    /\ cli_launched = TRUE
    /\ cli_stop_calls = 0
    /\ consumed = MaxRecords - 1
    /\ last_raw = NoRecord
    /\ last_kind = [i \in EventIds |->
                        IF i \in Keys(flow_table) THEN "new"
                        ELSE IF committed.exists /\ \E k \in 1 .. Len(committed.data) :
                                                        committed.data[k].id = i
                        THEN "destroy"
                        ELSE "none"]
    /\ observed = [file |-> NoFile, committed |-> NoFile]
    /\ probe = NoProbe

SpecHeld == InitHeld /\ [][Next]_vars

-----------------------------------------------------------------------------
(* Properties *)

\* the place of a key in the table
Lookup(table, k) == (CHOOSE i \in 1 .. Len(table) : table[i].key = k)

InCommit == pc \in {"open", "write", "rename", "reload"}

\* C1: the flow table holds exactly the flow ids whose last new/update/destroy
\* event was a new or an update.
TableConsistency ==
    Keys(flow_table) = {i \in EventIds : last_kind[i] \in {"new", "update"}}

\* two flows stored, then the first destroyed while the second stays
TableConsistencyWitness ==
    /\ consumed = MaxEvents
    /\ last_raw.type = "destroy"
    /\ last_raw.id = "1"
    /\ last_kind["1"] = "destroy"
    /\ last_kind["2"] = "new"
    /\ Keys(flow_table) = {"2"}

\* C2: once a commit has happened, whenever the loop stands between two
\* records the committed file is the render of the current flow table.
ConfigMatchesTable ==
    (pc \in {"loop", "read"} /\ committed.exists)
        => files[config_file_path] =
              File(generate_nginx_conf(flow_table, allowed_networks).lines)

\* the address has the prefix of the network
InNetwork(addr, n) ==
    LET size == Pow2(AddrBits - n.prefixlen)
    IN  addr \div size = n.network_address \div size

Exposable(event, networks) ==
    /\ event.original.l3_proto = "ipv4" /\ event.reply.l3_proto = "ipv4"
    /\ event.original.l4_proto \in {"tcp", "udp"}
    /\ event.reply.l4_proto \in {"tcp", "udp"}
    /\ event.original.l4_proto = event.reply.l4_proto
    /\ event.original.l3_src # event.reply.l3_dst
    /\ \E i \in 1 .. Len(networks) : InNetwork(event.original.l3_src, networks[i])

\* C3: check_flow is true exactly when both families are ipv4, both transports
\* are tcp or udp and equal, the original source differs from the reply
\* destination, and the original source lies in an allow-listed network,
\* its first and last address included.
EligibilityPredicate ==
    probe.called =>
        probe.accepted = {event \in ProbeEvents : Exposable(event, allowed_networks)}

\* under some allow-list, the first and the last address of a network are
\* eligible and the addresses just below and just above are not
EligibilityWitness ==
    /\ probe.called
    /\ \E i \in 1 .. Len(allowed_networks) :
          LET last == broadcast_address(allowed_networks[i])
              first == allowed_networks[i].network_address
          IN  /\ last + 1 \in Addresses
              /\ first - 1 \in Addresses
              /\ ProbeEvent("ipv4", "ipv4", "udp", "udp", last, first - 1) \in probe.accepted
              /\ ProbeEvent("ipv4", "ipv4", "tcp", "tcp", first, last + 1) \in probe.accepted
              /\ ProbeEvent("ipv4", "ipv4", "tcp", "tcp", last + 1, first) \notin probe.accepted
              /\ ProbeEvent("ipv4", "ipv4", "tcp", "tcp", first - 1, last) \notin probe.accepted

NoNat(event) == event.original.l3_src = event.reply.l3_dst

NoLineForNoNat(text) ==
    \A k \in 1 .. Len(text) :
        text[k].id \in Keys(flow_table)
            => ~NoNat(flow_table[Lookup(flow_table, text[k].id)].value)

\* C4: no rendered configuration has a line for a flow whose stored event has
\* its original source equal to its reply destination.
NoNatNeverRendered ==
    probe.called => NoLineForNoNat(probe.lines)

\* a render with blocks, of a table that holds an untranslated flow with
\* ports, of a tcp source that a network of the allow-list contains
NoNatWitness ==
    /\ probe.called
    /\ Len(probe.lines) > 0
    /\ \E i \in 1 .. Len(flow_table) :
          LET e == flow_table[i].value
          IN  /\ NoNat(e)
              /\ e.original.l3_proto = "ipv4" /\ e.reply.l3_proto = "ipv4"
              /\ e.original.l4_proto = "tcp" /\ e.reply.l4_proto = "tcp"
              /\ e.original.l4_sport # NoText /\ e.reply.l4_dport # NoText
              /\ \E n \in 1 .. Len(allowed_networks) :
                    InNetwork(e.original.l3_src, allowed_networks[n])

\* the listen endpoint of a flow: address, port and the udp marker
ListenEndpoint(flow) ==
    <<flow.reply.l3_dst, flow.reply.l4_dport, flow.reply.l4_proto = "udp">>

LineEndpoint(line) == <<line.listen_addr[1], line.listen_addr[2], line.udp>>

SharesEndpoint(table, i, j) ==
    /\ check_flow(table[i].value, allowed_networks)
    /\ check_flow(table[j].value, allowed_networks)
    /\ ListenEndpoint(table[i].value) = ListenEndpoint(table[j].value)

\* C5: a render has no two lines with the same listen endpoint, and of the
\* exposable flows that share a listen endpoint exactly the first in table
\* order has a line.
DedupFirstWins ==
    (probe.called /\ ~probe.raised) =>
        /\ \A k, l \in 1 .. Len(probe.lines) :
              k # l => LineEndpoint(probe.lines[k]) # LineEndpoint(probe.lines[l])
        /\ \A i \in 1 .. Len(flow_table) :
              (\E j \in 1 .. Len(flow_table) : j # i /\ SharesEndpoint(flow_table, i, j))
                  => ((\E k \in 1 .. Len(probe.lines) :
                          probe.lines[k].id = flow_table[i].key)
                      <=> ~\E j \in 1 .. (i - 1) : SharesEndpoint(flow_table, i, j))

\* C7: the target path always holds the whole text of the last commit (or
\* nothing before the first), and so does every observation of a reader.
AtomicCommit ==
    /\ files[config_file_path] = committed
    /\ observed.file = observed.committed

\* the reader saw the first commit while the second text, two lines long, was
\* half written
AtomicCommitWitness ==
    /\ pc = "write"
    /\ Len(nginx_conf) = 2
    /\ Len(files[tmp_conf_path].data) = 1
    /\ observed.file.exists
    /\ observed.file = files[config_file_path]
    /\ observed.file.data # nginx_conf

\* C8: when an interrupt ends the program, the conntrack process has been
\* asked to terminate: ConntrackCli.stop has been called.
InterruptStopsCli ==
    pc = "exited" => cli_stop_calls > 0

\* the records the decoder must refuse: not XML, or without a flow id, an
\* event type, or a direction's protocols or addresses
Undecodable(raw) ==
    \/ ~raw.xml
    \/ raw.id = NoAttr
    \/ raw.type = NoAttr
    \/ \E x \in {raw.original, raw.reply} :
          \/ ~x.present
          \/ x.l3_proto = NoAttr \/ x.l4_proto = NoAttr
          \/ x.l3_src = NoText \/ x.l3_dst = NoText

PortsMissing(x) == x.l4_sport = NoText \/ x.l4_dport = NoText

\* C9: a record with a port missing in either direction raises nothing:
\* decoding it does not fail, and no render, triggered by it or by a later
\* record while its flow is in the table, fails on the unassigned port.
MissingPortsNeverAnError ==
    /\ (/\ ~Undecodable(last_raw)
        /\ PortsMissing(last_raw.original) \/ PortsMissing(last_raw.reply))
          => error # "DecodeError"
    /\ error # "AttributeError"

\* a required field of the record is missing: the record cannot be parsed
\* or lacks the field, or the element of the id or of an address is there
\* without text
Incomplete(raw) ==
    \/ Undecodable(raw)
    \/ raw.id = NoneId
    \/ raw.original.l3_src = NoneText \/ raw.original.l3_dst = NoneText
    \/ raw.reply.l3_src = NoneText \/ raw.reply.l3_dst = NoneText

\* a step that reads an incomplete record, and a step after the error
DecodeFailureStep ==
    /\ (consumed' = consumed + 1 /\ Incomplete(last_raw'))
          => /\ \/ pc' = "crashed" /\ error' = "DecodeError"
                \/ pc' = "exited" /\ error' = "KeyboardInterrupt"
             /\ flow_table' = flow_table
             /\ files' = files
             /\ committed' = committed
             /\ reloads' = reloads
    /\ pc = "crashed"
          => /\ pc' \in {"crashed", "launch"}
             /\ pc' = "launch" => ~stopped /\ error' = "none"
             /\ consumed' = consumed
             /\ flow_table' = flow_table
             /\ files' = files
             /\ reloads' = reloads

\* C10: a record that cannot be decoded, because it cannot be parsed or a
\* required field of it is missing, ends run() with the decode error,
\* changes neither the flow table nor the files and launches no reload, and
\* after the error no further record is read.
DecodeFailureFatal == [][DecodeFailureStep]_vars

\* the record read changes nothing: its kind is not new, update or destroy,
\* or it destroys a flow the table does not hold
NoOpRecord(raw, table) ==
    /\ ~Undecodable(raw)
    /\ \/ raw.type \notin {"new", "update", "destroy"}
       \/ raw.type = "destroy" /\ raw.id \notin Keys(table)

NoOpStep ==
    (consumed' = consumed + 1 /\ NoOpRecord(last_raw', flow_table))
        => /\ flow_table' = flow_table
           /\ nginx_conf' = nginx_conf
           /\ files' = files
           /\ committed' = committed
           /\ reloads' = reloads
           /\ \/ error' = error /\ pc' = "loop"
              \/ error' = "KeyboardInterrupt" /\ pc' = "exited"

\* C11: an event of another kind, and a destroy of a flow id the table does
\* not hold, leave the flow table as it was, raise nothing and do not call
\* flow_table_updated: the loop goes on to its test with no render, no file
\* written and no reload (unless the program is interrupted meanwhile).
NoOpEvents == [][NoOpStep]_vars

\* the second record, after the commit of the first, was an exposable destroy
\* of the flow id the table does not hold
NoOpWitness ==
    /\ pc = "loop"
    /\ error = "none"
    /\ consumed = 2
    /\ reloads = 1
    /\ last_raw.type = "destroy"
    /\ last_raw.id \notin Keys(flow_table)
    /\ check_flow(FlowEvent(last_raw), allowed_networks)
    /\ Len(flow_table) = 1
    /\ committed.exists

\* the record read changes the table: a new or an update, or a destroy of a
\* flow the table holds
ChangesTable(raw, table) ==
    \/ raw.type \in {"new", "update"}
    \/ raw.type = "destroy" /\ raw.id \in Keys(table)

RenderTriggerStep ==
    (consumed' = consumed + 1 /\ ~Undecodable(last_raw') /\ pc' # "exited")
        => LET event == FlowEvent(last_raw')
               changed == ChangesTable(last_raw', flow_table)
               exposable == Exposable(event, allowed_networks)
           IN  /\ (changed /\ exposable)
                     <=> /\ pc' = "open"
                         /\ nginx_conf' =
                               generate_nginx_conf(flow_table', allowed_networks).lines
               /\ (changed /\ ~exposable)
                     => /\ IF event.type = "destroy"
                           THEN event.id \notin Keys(flow_table')
                           ELSE flow_table'[Lookup(flow_table', event.id)].value = event
                        /\ pc' = "loop"
                        /\ files' = files
                        /\ reloads' = reloads

\* C12: a record starts a render and its commit exactly when it changed the
\* table (a new, an update, or a destroy of a flow the table holds) and its
\* own event is exposable, whatever the entry it replaced or removed; a
\* record that changed the table with an event that is not exposable leaves
\* its change in the table, writes no file and launches no reload.  (Records
\* during whose handling the program is interrupted are left aside.)
RenderTrigger == [][RenderTriggerStep]_vars

\* what the blocks of a text say about the flows of a table
BlocksOf(text, table, networks) ==
    /\ \A k \in 1 .. Len(text) :
          /\ text[k].id \in Keys(table)
          /\ LET flow == table[Lookup(table, text[k].id)].value
             IN  /\ Exposable(flow, networks)
                 /\ text[k].listen_addr = <<flow.reply.l3_dst, flow.reply.l4_dport>>
                 /\ text[k].udp = (flow.reply.l4_proto = "udp")
                 /\ text[k].dest_addr = <<flow.original.l3_src, flow.original.l4_sport>>
                 /\ text[k].additional_conf = additional_conf
    /\ \A k, l \in 1 .. Len(text) :
          k < l => Lookup(table, text[k].id) < Lookup(table, text[l].id)
    /\ (\A i \in 1 .. Len(table) : ~Exposable(table[i].value, networks))
          => text = <<>>

\* C13: every block of a rendered text is for a flow that is in the table and
\* exposable; it listens on the flow's reply destination address and port,
\* with the udp marker exactly for udp, proxies to the original source
\* address and port, and carries the extra fragment and the flow id; blocks
\* follow the table's order, a table with no exposable flow renders the empty
\* text, and so a flow removed by a destroy has no block in the next render.
BlockContent ==
    /\ LET g == generate_nginx_conf(flow_table, allowed_networks)
       IN  ~g.raised => /\ BlocksOf(g.lines, flow_table, allowed_networks)
                        /\ \A k \in 1 .. Len(g.lines) :
                              last_kind[g.lines[k].id] # "destroy"
    /\ InCommit => /\ BlocksOf(nginx_conf, flow_table, allowed_networks)
                   /\ \A k \in 1 .. Len(nginx_conf) :
                         last_kind[nginx_conf[k].id] # "destroy"

\* flow 1 was destroyed without a render, its block still in the target; the
\* next render, for a udp flow just stored, has the block of that flow only
BlockContentWitness ==
    /\ pc = "open"
    /\ last_kind["1"] = "destroy"
    /\ files[config_file_path] = File(EarlierText)
    /\ last_raw.type = "new"
    /\ last_raw.id = "2"
    /\ Len(nginx_conf) = 1
    /\ nginx_conf[1].id = "2"
    /\ nginx_conf[1].udp

\* two exposable flows, one tcp and one udp, with the same reply destination
\* address and port, both ports decoded
SameAddressOtherTransport(table, i, j) ==
    LET a == table[i].value
        b == table[j].value
    IN  /\ check_flow(a, allowed_networks)
        /\ check_flow(b, allowed_networks)
        /\ a.reply.l4_proto # b.reply.l4_proto
        /\ a.reply.l3_dst = b.reply.l3_dst
        /\ a.reply.l4_dport = b.reply.l4_dport
        /\ a.reply.l4_dport # Unset

\* C14: the duplicate test tells tcp from udp: of an exposable tcp flow and
\* an exposable udp flow with the same reply destination address and port,
\* each has a block in the render.
DedupKeyHasTransport ==
    (probe.called /\ ~probe.raised) =>
        \A i, j \in 1 .. Len(flow_table) :
            SameAddressOtherTransport(flow_table, i, j)
                => \E k \in 1 .. Len(probe.lines) : probe.lines[k].id = flow_table[i].key

CommitOrderStep ==
    \* the temporary file is written only before the rename
    /\ (files'[tmp_conf_path] # files[tmp_conf_path] /\ files'[tmp_conf_path].exists)
          => pc \in {"open", "write"}
    \* the rename moves the whole text, and nothing is launched yet
    /\ files'[config_file_path] # files[config_file_path]
          => /\ pc = "rename"
             /\ files[tmp_conf_path] = File(nginx_conf)
             /\ files'[config_file_path] = File(nginx_conf)
             /\ ~files'[tmp_conf_path].exists
    /\ (pc # "reload" /\ pc' = "reload")
          => /\ pc = "rename"
             /\ files[tmp_conf_path] = File(nginx_conf)
             /\ committed' = File(nginx_conf)
             /\ reloads' = reloads
    \* a reload is launched only after a rename, once, and the loop goes on
    /\ reloads' # reloads
          => /\ pc = "reload"
             /\ reloads' = reloads + 1
             /\ files[config_file_path] = File(nginx_conf)
             /\ pc' = "loop"
    \* after the rename the launch follows and the loop goes on, unless the
    \* program is interrupted
    /\ (pc = "reload" /\ pc' # "reload")
          => (reloads' = reloads + 1 /\ pc' = "loop") \/ pc' = "exited"

\* C15: in every commit the temporary file is written in full, then renamed
\* onto the target, then the reload is launched; a reload is launched once
\* for each commit and only after one, and the loop goes on to the next
\* record without waiting for it, so that several reloads have been launched
\* while the loop reads on.
CommitOrder == [][CommitOrderStep]_vars

CommitFailureStep ==
    \* the failure ends run() where it happened
    /\ (pc \in {"open", "write", "rename"} /\ error' \notin {error, "KeyboardInterrupt"})
          => /\ error' = "OSError"
             /\ pc' = "crashed"
             /\ reloads' = reloads
             /\ files'[config_file_path] = files[config_file_path]
             /\ files'[config_file_path] = committed'
             /\ committed' = committed
    \* and afterwards nothing is tried again: run() is over until it is
    \* called anew
    /\ (pc = "crashed" /\ error = "OSError")
          => /\ pc' \in {"crashed", "launch"}
             /\ nginx_conf' = nginx_conf
             /\ files' = files
             /\ committed' = committed
             /\ reloads' = reloads
             /\ consumed' = consumed

\* C16: when writing the temporary file or renaming it fails, the error
\* leaves run(), no reload is launched for that commit, the commit is not
\* tried again, and the target holds the text of the last commit that
\* succeeded.
CommitFailure == [][CommitFailureStep]_vars

\* the second commit failed with its temporary file half written: the target
\* still holds the first text and one reload was launched
CommitFailureWitness ==
    /\ pc = "crashed"
    /\ error = "OSError"
    /\ reloads = 1
    /\ consumed = 2
    /\ committed.exists
    /\ files[config_file_path] = committed
    /\ files[config_file_path] # File(nginx_conf)
    /\ files[tmp_conf_path].exists
    /\ Len(files[tmp_conf_path].data) = 1
    /\ Len(nginx_conf) = 2

\* the step of the commit that follows a position of the loop
NextInCommit(p) ==
    IF p = "open" THEN "write"
    ELSE IF p = "write" THEN "rename"
    ELSE IF p = "rename" THEN "reload"
    ELSE "loop"

CoarseStopStep ==
    \* run() returns on the flag only from the test between two records
    /\ (pc # "returned" /\ pc' = "returned") => (pc = "loop" /\ stopped)
    \* the request itself touches nothing of the record in progress
    /\ (~stopped /\ stopped' /\ pc' # "exited")
          => /\ pc' = pc
             /\ flow_table' = flow_table
             /\ nginx_conf' = nginx_conf
             /\ files' = files
             /\ reloads' = reloads
    \* a blocked read with the flag set ends only with a record, the end of
    \* the stream among them, and that record is applied
    /\ (stopped /\ pc = "read" /\ pc' # "read")
          => \/ pc' = "exited"
             \/ /\ consumed' = consumed + 1
                /\ ~Undecodable(last_raw')
                      => LET event == FlowEvent(last_raw')
                         IN  /\ event.type \in {"new", "update"}
                                   => /\ event.id \in Keys(flow_table')
                                      /\ flow_table'[Lookup(flow_table', event.id)].value
                                            = event
                             /\ event.type = "destroy"
                                   => event.id \notin Keys(flow_table')
    \* and its commit goes on step by step to the reload, unless an error or
    \* an interrupt ends run()
    /\ (stopped /\ InCommit /\ pc' # pc)
          => pc' = NextInCommit(pc) \/ error' # error

\* C17: a stop request ends the loop only at its test between two records:
\* with the request made, a record being processed is applied and its commit
\* carried through, a read that is waiting goes on waiting until a record
\* or the end of the stream arrives, and that record is processed in full
\* before run() returns.
CoarseStop == [][CoarseStopStep]_vars

\* the stop request came while the first record was awaited or processed
\* (the loop test passes only without it), and the record has been applied
\* and its text renamed onto the target all the same
CoarseStopWitness ==
    /\ pc = "reload"
    /\ stopped
    /\ consumed = 1
    /\ reloads = 0
    /\ Len(flow_table) = 1
    /\ files[config_file_path] = File(nginx_conf)
    /\ Len(nginx_conf) = 1

\* how far the listener has come: 0 Idle (no conntrack process started yet),
\* 1 Running, 2 Stopping, 3 Stopped (run() is over)
LoopState(p, flag, launched) ==
    IF p \in RunPcs THEN (IF flag THEN 2 ELSE 1)
    ELSE IF ~launched THEN 0
    ELSE 3

LoopStateStep ==
    \* forward only; run() returns on the flag from Stopping
    /\ LoopState(pc', stopped', cli_launched') >= LoopState(pc, stopped, cli_launched)
    /\ (pc # "returned" /\ pc' = "returned") => LoopState(pc, stopped, cli_launched) = 2
    \* leaving the loop on the flag signals the conntrack process once if
    \* stop_cli is true and not at all if it is false
    /\ (pc # "returned" /\ pc' = "returned")
          => cli_stop_calls' = (IF stop_cli THEN cli_stop_calls + 1 ELSE cli_stop_calls)
    /\ cli_stop_calls' # cli_stop_calls
          => /\ pc = "loop" /\ pc' \in {"returned", "exited"}
             /\ stopped /\ stop_cli
             /\ cli_stop_calls = 0
    \* after the signal no record is read
    /\ cli_stop_calls > 0 => consumed' = consumed /\ flow_table' = flow_table
    \* run() on a stopped listener raises and launches nothing
    /\ (stopped /\ pc \in RestPcs)
          => /\ pc' \in RestPcs
             /\ pc' # pc => pc' = "exited" \/ (pc' = "crashed" /\ error' = "RuntimeError")
             /\ cli_launched' = cli_launched
             /\ cli_stop_calls' = cli_stop_calls

\* C18: the loop moves forward only through Idle, Running, Stopping and
\* Stopped; when run() leaves its loop on the stop flag the conntrack process
\* is signalled (ConntrackCli.stop is called) once if stop_cli is true and not
\* at all if it is false, after
\* the last record handled and with no record read afterwards; a stopped
\* listener never runs again: run() raises without launching conntrack.
LoopStateMachine == [][LoopStateStep]_vars

TableValuesStep ==
    LET received == consumed' = consumed + 1 /\ ~Undecodable(last_raw')
    IN  \* an entry is a new or update event under its own id: the one it was
        \* before the step, or the event just received
        /\ \A i \in 1 .. Len(flow_table') :
              LET entry == flow_table'[i]
              IN  /\ entry.value.id = entry.key
                  /\ entry.value.type \in {"new", "update"}
                  /\ \/ \E j \in 1 .. Len(flow_table) : flow_table[j] = entry
                     \/ received /\ entry.value = FlowEvent(last_raw')
        \* a new or update event received is the entry of its id afterwards
        /\ (received /\ last_raw'.type \in {"new", "update"} /\ pc' # "exited")
              => /\ last_raw'.id \in Keys(flow_table')
                 /\ flow_table'[Lookup(flow_table', last_raw'.id)].value
                       = FlowEvent(last_raw')
        \* no two entries for one id
        /\ \A i, j \in 1 .. Len(flow_table') :
              flow_table'[i].key = flow_table'[j].key => i = j

\* C19: every entry of the flow table is stored under the flow id of its own
\* event, has kind new or update, and is, as a whole record, the latest new
\* or update event received for that id.
TableValues == [][TableValuesStep]_vars

\* two flows stored, then an update has replaced the event of the first with
\* a udp event while the second stays as it was
TableValuesWitness ==
    /\ consumed = MaxEvents
    /\ Len(flow_table) = 2
    /\ last_raw.type = "update"
    /\ last_raw.id = flow_table[1].key
    /\ flow_table[1].value = FlowEvent(last_raw)
    /\ flow_table[1].value.original.l4_proto = "udp"
    /\ flow_table[2].value.type = "new"
    /\ flow_table[2].value.original.l4_proto = "tcp"

\* C20: right after the rename of a commit, the target file is the render of
\* the flow table as it is with the triggering event applied: the flow of a
\* triggering new or update is in the table, the flow of a triggering destroy
\* is not and has no block, and every block is for an exposable flow of the
\* table.
CommitTimeConsistency ==
    pc = "reload" =>
        LET g == generate_nginx_conf(flow_table, allowed_networks)
            text == files[config_file_path].data
        IN  /\ ~g.raised
            /\ files[config_file_path] = File(g.lines)
            /\ last_raw.type \in {"new", "update"} => last_raw.id \in Keys(flow_table)
            /\ last_raw.type = "destroy"
                  => /\ last_raw.id \notin Keys(flow_table)
                     /\ \A k \in 1 .. Len(text) : text[k].id # last_raw.id
            /\ \A k \in 1 .. Len(text) :
                  /\ text[k].id \in Keys(flow_table)
                  /\ Exposable(flow_table[Lookup(flow_table, text[k].id)].value,
                               allowed_networks)

\* the target held the block of flow 1, destroyed without a commit; the
\* commit triggered by flow 2 has just renamed a text whose only block is for
\* flow 2
CommitTimeWitness ==
    /\ pc = "reload"
    /\ last_kind["1"] = "destroy"
    /\ last_raw.type = "new"
    /\ last_raw.id = "2"
    /\ Keys(flow_table) = {"2"}
    /\ Len(files[config_file_path].data) = 1
    /\ files[config_file_path].data[1].id = "2"

====
